---- MODULE Spec2Model ----
\* A model of the grounded-rag-qa service: the Retriever's retry / confidence
\* pipeline and its citations (app/services/retrieval_service.py), the HTTP
\* handlers on the asyncio event loop (app/main.py), the in-memory document
\* registry (app/services/document_service.py) and the sentence chunker
\* (app/pipelines/chunking.py).
\*
\* Similarity scores and thresholds are floats in the code; here they are counted
\* in tenths (0.7 is 7), which keeps >=, max and equality exact.
EXTENDS Integers, Sequences, FiniteSets, TLC

\* ---------------------------------------------------------------- bounds
MaxRetries == 3      \* settings.max_retries ranges over 0..MaxRetries
MaxHits == 3         \* the store returns at most MaxHits hits in the model
NumRequests == 2     \* HTTP requests in flight on the event loop
NumThreads == 3      \* concurrent callers of the DocumentService
MaxTextLen == 7      \* characters in the text given to chunk_text

\* ------------------------------------------------------- program constants
Retrieval_top_k == 5            \* settings.retrieval_top_k
Confidence_threshold == 7       \* settings.confidence_threshold (0.7)
CitationLimit == 200            \* the citation text limit of _build_citations

\* An Optional value: Python's None is the empty tuple, a value x is <<x>>.
None == << >>
Some(x) == <<x>>
NoError == "None"               \* no exception

\* The scores a hit can carry, the thresholds and top_k a caller can pass
\* (QueryRequest: confidence_threshold is any float or absent, top_k >= 1).
ScoreVals == {2, 7, 9}
ThresholdArgs == {None, Some(0), Some(5), Some(10)}
TopKArgs == {None, Some(1), Some(2)}
Answers == {"answer A", "answer B"}
NoInfoAnswer == "I couldn't find any relevant information to answer your question."

VARIABLES
    \* --- RetrievalService.retrieve_and_answer, one call
    max_retries,        \* self.max_retries
    pc,                 \* where the call is: idle, embed, query, generate, backoff, returned, raised
    q_top_k,            \* the top_k argument
    q_threshold,        \* the confidence_threshold argument
    include_citations,  \* the include_citations argument
    threshold,          \* local threshold (line 44); 0 before the call
    top_k,              \* local top_k (line 45); 0 before the call
    attempt,            \* the loop variable
    results,            \* hits returned by the store in this attempt
    filtered_results,   \* hits that become context_chunks
    max_confidence,     \* local max_confidence
    outcome,            \* the dictionary returned, or None
    error,              \* the exception that left the call, or None
    \* history of the call (observations, not program state)
    delays,             \* the sequence of time.sleep durations so far
    failed,             \* number of attempts that ended in an exception
    lastExc,            \* the exception of the latest failed attempt
    called,             \* provider calls made in the current attempt, in order
    answered,           \* provider calls that returned in the current attempt, in order
    calls,              \* provider calls made in the whole call, per provider
    queried_top_k,      \* the top_k the store was last queried with
    context_chunks,     \* local context_chunks (lines 88-97)
    generated_from,     \* history: the context given to generate_response in the current attempt
    \* --- app.main: the handlers on the event loop
    running,            \* the request whose handler holds the loop thread, 0 if none
    req,                \* per request: kind, position, attempt, HTTP status
    \* --- DocumentService shared by concurrent callers
    documents,          \* self._documents
    uuids,              \* number of uuid4 values issued so far
    vector_index,       \* the vector ids upserted into the store
    th,                 \* per caller: the operation it runs and its locals
    \* --- DocumentChunker: the object and one call of chunk_text
    settings,           \* settings.chunk_size and settings.chunk_overlap
    ctor_args,          \* the chunk_size and chunk_overlap given to __init__
    chunk_size,         \* self.chunk_size
    chunk_overlap,      \* self.chunk_overlap
    cpc,                \* where the call is: idle, loop, returned, raised
    text,               \* the text argument, a sequence of characters
    metadata,           \* the metadata argument, None or a map
    sentences,          \* local sentences
    sidx,               \* position of the for loop in sentences
    current_chunk,      \* local current_chunk, a list of strings
    current_length,     \* local current_length
    start,              \* local start
    chunk_id,           \* local chunk_id
    chunks,             \* local chunks, the list returned
    overlaps,           \* history: the overlap_text computed when each chunk closed
    chunk_error,        \* the exception that left chunk_text, or None
    \* --- RetrievalService._build_citations, one call
    bpc,                \* idle or returned
    context_arg,        \* the chunks argument
    cited               \* the list returned

rvars == <<max_retries, pc, q_top_k, q_threshold, include_citations, threshold, top_k,
           attempt, results, filtered_results, max_confidence, outcome, error,
           delays, failed, lastExc, called, answered, calls, queried_top_k,
           context_chunks, generated_from>>

svars == <<running, req>>

gvars == <<documents, uuids, vector_index, th>>

cvars == <<settings, ctor_args, chunk_size, chunk_overlap, cpc, text, metadata, sentences,
           sidx, current_chunk, current_length, start, chunk_id, chunks, overlaps,
           chunk_error>>

bvars == <<bpc, context_arg, cited>>

vars == <<rvars, svars, gvars, cvars, bvars>>

\* ------------------------------------------------------------ pure helpers
RECURSIVE SumSeq(_)
SumSeq(s) == IF s = << >> THEN 0 ELSE Head(s) + SumSeq(Tail(s))

Max(S) == CHOOSE x \in S : \A y \in S : y <= x

\* Python truthiness of an Optional number: None and 0 (0.0) are falsy.
Falsy(x) == x = None \/ x = Some(0)

\* `a or b`
PyOr(a, b) == IF Falsy(a) THEN b ELSE a[1]

\* VectorDBService.query_vectors: the provider's matches, in the provider's order.
\* Pinecone returns matches by descending score and Chroma by ascending distance
\* (score = 1 - distance), so a hit list is descending in score; ids are distinct.
IsDescending(s) == \A i \in 1..(Len(s) - 1) : s[i] >= s[i + 1]

ScoreLists(n) == {s \in UNION {[1..k -> ScoreVals] : k \in 0..n} : IsDescending(s)}

\* A chunk text is kept as the document it is taken from and its length in
\* characters; text[:n] keeps the first n characters. The store holds one text per
\* chunk id: longer than the citation limit, exactly the limit, absent (""), shorter.
TextOfLen(d, n) == [doc |-> d, len |-> n]

Slice(t, n) == [t EXCEPT !.len = IF @ < n THEN @ ELSE n]

StoredText(i) ==
    TextOfLen(i, CASE i = 1 -> CitationLimit + 50
                   [] i = 2 -> CitationLimit
                   [] i = 3 -> 0
                   [] OTHER -> CitationLimit - 80)

HitsOf(s) == [i \in 1..Len(s) |-> [id |-> i, score |-> s[i], text |-> StoredText(i)]]

QueryVectors(k) ==
    LET n == IF k < MaxHits THEN k ELSE MaxHits
    IN  {HitsOf(s) : s \in ScoreLists(n)}

\* line 72: confidence_scores
ConfidenceScores(rs) == [i \in 1..Len(rs) |-> rs[i].score]

\* line 73: max(confidence_scores) if confidence_scores else 0.0
MaxConfidence(rs) ==
    IF Len(rs) = 0 THEN 0 ELSE Max({rs[i].score : i \in 1..Len(rs)})

\* line 74: sum / len, kept as the fraction <<sum, len>>
AvgConfidence(rs) ==
    IF Len(rs) = 0 THEN <<0, 1>> ELSE <<SumSeq(ConfidenceScores(rs)), Len(rs)>>

\* lines 77-79: the confidence filter
FilterStrict(rs, t) == SelectSeq(rs, LAMBDA r : r.score > t)
FilterByThreshold(rs, t) == SelectSeq(rs, LAMBDA r : r.score >= t)

\* line 84: results[:1]
FallbackLast(rs) == SubSeq(rs, Len(rs), Len(rs))
FallbackResults(rs) == SubSeq(rs, 1, 1)

\* line 85: results[0]["score"]
FallbackConfidenceLast(rs) == rs[Len(rs)].score
FallbackConfidence(rs) == rs[1].score

\* lines 44-45: the effective threshold and top_k
ResolveThreshold(arg, default) == PyOr(arg, default)
ResolveTopK(arg, default) == PyOr(arg, default)

\* line 125: attempt == self.max_retries - 1
IsLastAttemptOffByOne(a, m) == a = m
IsLastAttempt(a, m) == a = m - 1

\* line 129: 2 ** attempt
BackoffDelayLinear(a) == 2 * a
BackoffDelay(a) == 2 ^ a

\* lines 67, 119: attempt + 1
AttemptNumberZeroBased(a) == a
AttemptNumber(a) == a + 1

\* lines 88-97: one context chunk per surviving hit, in order
ContextChunks(frs) ==
    [i \in 1..Len(frs) |->
        [text |-> frs[i].text, chunk_id |-> frs[i].id, score |-> frs[i].score]]

\* line 140: text[:200] + "..." if len(text) > 200 else text; the result is the
\* text kept and whether the ellipsis was added
CitationTextAtLimit(t) ==
    IF t.len >= CitationLimit
      THEN [body |-> Slice(t, CitationLimit), ellipsis |-> TRUE]
      ELSE [body |-> t, ellipsis |-> FALSE]
CitationText(t) ==
    IF t.len > CitationLimit
      THEN [body |-> Slice(t, CitationLimit), ellipsis |-> TRUE]
      ELSE [body |-> t, ellipsis |-> FALSE]

\* lines 133-144: one citation per context chunk, in order
BuildCitationsReversed(cs) ==
    [i \in 1..Len(cs) |->
        [chunk_id |-> cs[Len(cs) + 1 - i].chunk_id,
         text |-> CitationText(cs[Len(cs) + 1 - i].text),
         confidence_score |-> cs[Len(cs) + 1 - i].score]]
BuildCitations(cs) ==
    [i \in 1..Len(cs) |->
        [chunk_id |-> cs[i].chunk_id,
         text |-> CitationText(cs[i].text),
         confidence_score |-> cs[i].score]]

\* lines 61-69: the outcome of a zero-hit attempt
EmptyOutcome(a) ==
    [answer |-> NoInfoAnswer, citations |-> << >>, confidence_score |-> 0,
     retrieval_metadata |-> [retrieval_count |-> 0, attempt |-> AttemptNumber(a)]]

\* lines 109-121: the outcome of an attempt that generated an answer
AnswerOutcome(ans, rs, frs, ctx, maxc, thr, inc, a) ==
    [answer |-> ans,
     citations |-> IF inc THEN BuildCitations(ctx) ELSE << >>,
     confidence_score |-> maxc,
     retrieval_metadata |->
        [retrieval_count |-> Len(frs),
         total_retrieved |-> Len(rs),
         avg_confidence |-> AvgConfidence(rs),
         max_confidence |-> maxc,
         threshold_used |-> thr,
         attempt |-> AttemptNumber(a)]]

NoCalls == [embed |-> 0, query |-> 0, generate |-> 0]

\* ------------------------------------------------ retrieve_and_answer
RInit ==
    /\ pc = "idle"
    /\ q_top_k = None
    /\ q_threshold = None
    /\ include_citations = TRUE
    /\ threshold = 0
    /\ top_k = 0
    /\ attempt = 0
    /\ results = << >>
    /\ filtered_results = << >>
    /\ max_confidence = 0
    /\ outcome = None
    /\ error = NoError
    /\ delays = << >>
    /\ failed = 0
    /\ lastExc = NoError
    /\ called = << >>
    /\ answered = << >>
    /\ calls = NoCalls
    /\ queried_top_k = None
    /\ context_chunks = << >>
    /\ generated_from = None

\* lines 25-48: the call, its arguments resolved, the loop entered (or, with no
\* attempt to make, line 131)
Call(k, t, inc) ==
    /\ pc = "idle"
    /\ q_top_k' = k
    /\ q_threshold' = t
    /\ include_citations' = inc
    /\ threshold' = ResolveThreshold(t, Confidence_threshold)
    /\ top_k' = ResolveTopK(k, Retrieval_top_k)
    /\ attempt' = 0
    /\ IF max_retries > 0
         THEN pc' = "embed" /\ error' = error
         ELSE pc' = "raised" /\ error' = "Max retries exceeded"
    /\ UNCHANGED <<context_chunks, generated_from,
                   max_retries, results, filtered_results, max_confidence, outcome,
                   delays, failed, lastExc, called, answered, calls, queried_top_k,
                   svars, gvars, cvars, bvars>>

\* lines 123-129: the except clause, reached from the stage that raised exc
Except(exc) ==
    /\ failed' = failed + 1
    /\ lastExc' = exc
    /\ IF IsLastAttempt(attempt, max_retries)
         THEN pc' = "raised" /\ error' = exc
         ELSE pc' = "backoff" /\ error' = error

\* line 129 and the loop header: the sleep ends, the next attempt starts (line 131
\* when the range is exhausted)
Sleep ==
    /\ pc = "backoff"
    /\ delays' = Append(delays, BackoffDelay(attempt))
    /\ attempt' = attempt + 1
    /\ called' = << >>
    /\ answered' = << >>
    /\ generated_from' = None
    /\ IF attempt + 1 < max_retries
         THEN pc' = "embed" /\ error' = error
         ELSE pc' = "raised" /\ error' = "Max retries exceeded"
    /\ UNCHANGED <<context_chunks,
                   max_retries, q_top_k, q_threshold, include_citations, threshold,
                   top_k, results, filtered_results, max_confidence, outcome,
                   failed, lastExc, calls, queried_top_k,
                   svars, gvars, cvars, bvars>>

\* line 51: generate_embedding returns
EmbedOk ==
    /\ pc = "embed"
    /\ called' = Append(called, "embed")
    /\ answered' = Append(answered, "embed")
    /\ calls' = [calls EXCEPT !.embed = @ + 1]
    /\ results' = << >>
    /\ filtered_results' = << >>
    /\ context_chunks' = << >>
    /\ pc' = "query"
    /\ UNCHANGED <<generated_from,
                   max_retries, q_top_k, q_threshold, include_citations, threshold,
                   top_k, attempt, max_confidence, outcome, error, delays, failed,
                   lastExc, queried_top_k,
                   svars, gvars, cvars, bvars>>

\* line 51: generate_embedding raises
EmbedFail ==
    /\ pc = "embed"
    /\ called' = Append(called, "embed")
    /\ answered' = answered
    /\ calls' = [calls EXCEPT !.embed = @ + 1]
    /\ results' = << >>
    /\ filtered_results' = << >>
    /\ Except("EmbeddingError")
    /\ UNCHANGED <<context_chunks, generated_from,
                   max_retries, q_top_k, q_threshold, include_citations, threshold,
                   top_k, attempt, max_confidence, outcome, delays, queried_top_k,
                   svars, gvars, cvars, bvars>>

\* lines 54-57: query_vectors raises
QueryFail ==
    /\ pc = "query"
    /\ called' = Append(called, "query")
    /\ answered' = answered
    /\ calls' = [calls EXCEPT !.query = @ + 1]
    /\ queried_top_k' = Some(top_k)
    /\ Except("VectorQueryError")
    /\ UNCHANGED <<context_chunks, generated_from,
                   max_retries, q_top_k, q_threshold, include_citations, threshold,
                   top_k, attempt, results, filtered_results, max_confidence, outcome,
                   delays,
                   svars, gvars, cvars, bvars>>

\* a zero-hit attempt treated as a failed attempt
QueryEmptyRaises ==
    /\ pc = "query"
    /\ called' = Append(called, "query")
    /\ answered' = Append(answered, "query")
    /\ calls' = [calls EXCEPT !.query = @ + 1]
    /\ queried_top_k' = Some(top_k)
    /\ Except("NoResults")
    /\ UNCHANGED <<context_chunks, generated_from,
                   max_retries, q_top_k, q_threshold, include_citations, threshold,
                   top_k, attempt, results, filtered_results, max_confidence, outcome,
                   delays,
                   svars, gvars, cvars, bvars>>

\* lines 54-69: query_vectors returns no hit; the canned outcome is returned
QueryEmpty ==
    /\ pc = "query"
    /\ called' = Append(called, "query")
    /\ answered' = Append(answered, "query")
    /\ calls' = [calls EXCEPT !.query = @ + 1]
    /\ queried_top_k' = Some(top_k)
    /\ results' = << >>
    /\ outcome' = Some(EmptyOutcome(attempt))
    /\ pc' = "returned"
    /\ UNCHANGED <<context_chunks, generated_from,
                   max_retries, q_top_k, q_threshold, include_citations, threshold,
                   top_k, attempt, filtered_results, max_confidence, error, delays,
                   failed, lastExc,
                   svars, gvars, cvars, bvars>>

\* lines 54-97: query_vectors returns hits; confidence, filter and fallback
QueryHits(hits) ==
    /\ pc = "query"
    /\ Len(hits) > 0
    /\ called' = Append(called, "query")
    /\ answered' = Append(answered, "query")
    /\ calls' = [calls EXCEPT !.query = @ + 1]
    /\ queried_top_k' = Some(top_k)
    /\ results' = hits
    /\ LET kept == FilterByThreshold(hits, threshold)
       IN  IF Len(kept) = 0
             THEN /\ filtered_results' = FallbackResults(hits)
                  /\ max_confidence' = FallbackConfidence(hits)
             ELSE /\ filtered_results' = kept
                  /\ max_confidence' = MaxConfidence(hits)
    /\ context_chunks' = ContextChunks(filtered_results')
    /\ pc' = "generate"
    /\ UNCHANGED <<generated_from,
                   max_retries, q_top_k, q_threshold, include_citations, threshold,
                   top_k, attempt, outcome, error, delays, failed, lastExc,
                   svars, gvars, cvars, bvars>>

\* lines 100-121: generate_response returns; the outcome is built and returned
GenerateOk(ans) ==
    /\ pc = "generate"
    /\ called' = Append(called, "generate")
    /\ answered' = Append(answered, "generate")
    /\ calls' = [calls EXCEPT !.generate = @ + 1]
    /\ generated_from' = Some(context_chunks)
    /\ outcome' = Some(AnswerOutcome(ans, results, filtered_results, context_chunks,
                                     max_confidence, threshold, include_citations, attempt))
    /\ pc' = "returned"
    /\ UNCHANGED <<context_chunks,
                   max_retries, q_top_k, q_threshold, include_citations, threshold,
                   top_k, attempt, results, filtered_results, max_confidence, error,
                   delays, failed, lastExc, queried_top_k,
                   svars, gvars, cvars, bvars>>

\* lines 100-104: generate_response raises
GenerateFail ==
    /\ pc = "generate"
    /\ generated_from' = Some(context_chunks)
    /\ called' = Append(called, "generate")
    /\ answered' = answered
    /\ calls' = [calls EXCEPT !.generate = @ + 1]
    /\ Except("GenerationError")
    /\ UNCHANGED <<context_chunks,
                   max_retries, q_top_k, q_threshold, include_citations, threshold,
                   top_k, attempt, results, filtered_results, max_confidence, outcome,
                   delays, queried_top_k,
                   svars, gvars, cvars, bvars>>

\* ------------------------------------------- app.main on the event loop
\* Every route is an `async def`: the loop thread runs a handler until it awaits
\* or returns. query_documents calls retrieve_and_answer, time.sleep included,
\* without awaiting (main.py 138); ingest_document awaits file.read() once
\* (main.py 81); get_document_status never awaits.
Requests == 1..NumRequests
Kinds == {"query", "status", "ingest"}
NoRequest == [kind |-> "none", pc |-> "none", attempt |-> 0, status |-> 0]

SInit ==
    /\ running = 0
    /\ req = [r \in Requests |-> NoRequest]

\* a client sends a request
Receive(r, kind) ==
    /\ req[r].pc = "none"
    /\ req' = [req EXCEPT ![r] = [kind |-> kind, pc |-> "pending", attempt |-> 0, status |-> 0]]
    /\ UNCHANGED <<running, rvars, gvars, cvars, bvars>>

\* the loop thread, free, starts the handler of a pending request
StartHandler(r) ==
    /\ running = 0
    /\ req[r].pc = "pending"
    /\ running' = r
    /\ req' = [req EXCEPT ![r].pc = "run"]
    /\ UNCHANGED <<rvars, gvars, cvars, bvars>>

\* main.py 165-167 and 103-108, 123-127: the response leaves, the loop is free
Respond(r, code) ==
    /\ running' = 0
    /\ req' = [req EXCEPT ![r].pc = "done", ![r].status = code]

\* retrieval_service.py 131 reached with an empty range: HTTP 500
QueryNoAttempt(r) ==
    /\ running = r
    /\ req[r].kind = "query"
    /\ req[r].pc = "run"
    /\ max_retries = 0
    /\ Respond(r, 500)
    /\ UNCHANGED <<rvars, gvars, cvars, bvars>>

\* an attempt of retrieve_and_answer returns; main.py 157-163
QueryAttemptOk(r) ==
    /\ running = r
    /\ req[r].kind = "query"
    /\ req[r].pc = "run"
    /\ req[r].attempt < max_retries
    /\ Respond(r, 200)
    /\ UNCHANGED <<rvars, gvars, cvars, bvars>>

\* an attempt raises: re-raised on the last attempt (HTTP 500), time.sleep otherwise
QueryAttemptFail(r) ==
    /\ running = r
    /\ req[r].kind = "query"
    /\ req[r].pc = "run"
    /\ req[r].attempt < max_retries
    /\ IF IsLastAttempt(req[r].attempt, max_retries)
         THEN Respond(r, 500)
         ELSE /\ req' = [req EXCEPT ![r].pc = "backoff"]
              /\ running' = running
    /\ UNCHANGED <<rvars, gvars, cvars, bvars>>

\* time.sleep returns on the loop thread, the next attempt starts
QuerySleepDone(r) ==
    /\ running = r
    /\ req[r].pc = "backoff"
    /\ req' = [req EXCEPT ![r].pc = "run", ![r].attempt = @ + 1]
    /\ UNCHANGED <<running, rvars, gvars, cvars, bvars>>

\* main.py 111-127: 200 with the record, 404 on ValueError
StatusLookup(r, code) ==
    /\ running = r
    /\ req[r].kind = "status"
    /\ req[r].pc = "run"
    /\ code \in {200, 404}
    /\ Respond(r, code)
    /\ UNCHANGED <<rvars, gvars, cvars, bvars>>

\* main.py 81: await file.read() gives the loop thread up
IngestAwaitRead(r) ==
    /\ running = r
    /\ req[r].kind = "ingest"
    /\ req[r].pc = "run"
    /\ running' = 0
    /\ req' = [req EXCEPT ![r].pc = "reading"]
    /\ UNCHANGED <<rvars, gvars, cvars, bvars>>

\* the loop thread, free, resumes the handler after the read
IngestResume(r) ==
    /\ running = 0
    /\ req[r].pc = "reading"
    /\ running' = r
    /\ req' = [req EXCEPT ![r].pc = "ingesting"]
    /\ UNCHANGED <<rvars, gvars, cvars, bvars>>

\* main.py 85-108: document_service.ingest_document, then the response
IngestFinish(r, code) ==
    /\ running = r
    /\ req[r].pc = "ingesting"
    /\ code \in {200, 400, 500}
    /\ Respond(r, code)
    /\ UNCHANGED <<rvars, gvars, cvars, bvars>>

\* ------------------------------------------------------- DocumentService
\* The methods of the one DocumentService, run by concurrent callers; a step is
\* one statement of the method, and callers interleave between steps.
Threads == 1..NumThreads
Filenames == {"notes.txt", "tool.exe"}
SUPPORTED_FORMATS == {".pdf", ".txt", ".docx", ".md"}
ChunkCounts == {0, 1, 2}

\* Path(filename).suffix.lower()
Suffix(fn) == IF fn = "notes.txt" THEN ".txt" ELSE ".exe"

\* the document ids a status lookup asks for: the first two uuid4 can issue
DocIds == {1, 2}

Idle == [op |-> "none", pc |-> "idle", document_id |-> 0, filename |-> "", chunks |-> 0,
         known |-> FALSE, result |-> << >>, steps |-> << >>]

\* lines 89-95: the record of an ingestion
DocumentRecord(id, fn, n, meta) ==
    [document_id |-> id, filename |-> fn, chunks_count |-> n, status |-> "processed",
     metadata |-> meta]

\* ingestion.py 63-66: the caller's metadata; each call has its own (uploaded_at)
MetadataOf(t) == [uploaded_by |-> t]

\* uuid.uuid4(): a value never issued before
Uuid4Reused(n) == 1
Uuid4(n) == n + 1

\* line 89: self._documents[document_id] = record, one dictionary store
RegistryPutPartial(reg, id, rec) ==
    [d \in (DOMAIN reg) \cup {id} |->
        IF d = id THEN [document_id |-> rec.document_id, filename |-> rec.filename]
                  ELSE reg[d]]
RegistryPut(reg, id, rec) == [d \in (DOMAIN reg) \cup {id} |-> IF d = id THEN rec ELSE reg[d]]

\* line 112: document_id not in self._documents
RegistryMissing(reg, id) == id \notin DOMAIN reg

\* line 115: self._documents[document_id]
RegistryGet(reg, id) == reg[id]

GInit ==
    /\ documents = << >>
    /\ uuids = 0
    /\ vector_index = {}
    /\ th = [t \in Threads |-> Idle]

\* the collaborator call ingest_document makes at each position (lines 45, 57, 66,
\* 82), and the calls a caller has made once it makes that one (`steps`, a history)
CallOf(at) ==
    CASE at = "idle" -> "ingest_file"
      [] at = "chunk" -> "chunk_text"
      [] at = "embed" -> "generate_embeddings"
      [] at = "upsert" -> "upsert_vectors"

Calling(t) == Append(th[t].steps, CallOf(th[t].pc))

\* line 106-108: the exception leaves ingest_document; its locals are gone
Raised(t, exc) ==
    [th EXCEPT ![t] = [Idle EXCEPT !.op = "ingest", !.pc = "done", !.result = <<"raised", exc>>,
                                   !.steps = Calling(t)]]

\* lines 44-49 and ingestion.py 39-67: ingest_file checks the format, draws the
\* uuid and extracts the text
IngestFile(t, fn) ==
    /\ th[t].pc = "idle"
    /\ IF Suffix(fn) \in SUPPORTED_FORMATS
         THEN /\ uuids' = uuids + 1
              /\ th' = [th EXCEPT ![t] = [Idle EXCEPT !.op = "ingest", !.pc = "chunk",
                                          !.document_id = Uuid4(uuids), !.filename = fn,
                                          !.steps = Calling(t)]]
         ELSE /\ uuids' = uuids
              /\ th' = Raised(t, "Unsupported file format")
    /\ UNCHANGED <<documents, vector_index, rvars, svars, cvars, bvars>>

\* ingestion.py 44-70: the format is supported, the uuid drawn, extraction raises
IngestFileFail(t, fn) ==
    /\ th[t].pc = "idle"
    /\ Suffix(fn) \in SUPPORTED_FORMATS
    /\ uuids' = uuids + 1
    /\ th' = Raised(t, "ExtractionError")
    /\ UNCHANGED <<documents, vector_index, rvars, svars, cvars, bvars>>

\* lines 52-62: n chunks; none is a ValueError (ChunkTextUnchecked would go on
\* with no chunk)
ChunkTextUnchecked(t, n) ==
    /\ th[t].pc = "chunk"
    /\ th' = [th EXCEPT ![t].pc = "embed", ![t].chunks = n, ![t].steps = Calling(t)]
    /\ UNCHANGED <<documents, uuids, vector_index, rvars, svars, cvars, bvars>>
ChunkText(t, n) ==
    /\ th[t].pc = "chunk"
    /\ IF n = 0
         THEN th' = Raised(t, "No chunks created from document")
         ELSE th' = [th EXCEPT ![t].pc = "embed", ![t].chunks = n, ![t].steps = Calling(t)]
    /\ UNCHANGED <<documents, uuids, vector_index, rvars, svars, cvars, bvars>>

\* lines 65-66: generate_embeddings returns
EmbedChunksOk(t) ==
    /\ th[t].pc = "embed"
    /\ th' = [th EXCEPT ![t].pc = "upsert", ![t].steps = Calling(t)]
    /\ UNCHANGED <<documents, uuids, vector_index, rvars, svars, cvars, bvars>>

\* lines 65-66: generate_embeddings raises
EmbedChunksFail(t) ==
    /\ th[t].pc = "embed"
    /\ th' = Raised(t, "EmbeddingError")
    /\ UNCHANGED <<documents, uuids, vector_index, rvars, svars, cvars, bvars>>

\* lines 69-86: upsert_vectors stores one vector per chunk id
UpsertOk(t) ==
    /\ th[t].pc = "upsert"
    /\ vector_index' = vector_index \cup
          {<<th[t].document_id, i>> : i \in 0..(th[t].chunks - 1)}
    /\ th' = [th EXCEPT ![t].pc = "store", ![t].steps = Calling(t)]
    /\ UNCHANGED <<documents, uuids, rvars, svars, cvars, bvars>>

\* lines 82-86: upsert_vectors raises
UpsertFail(t) ==
    /\ th[t].pc = "upsert"
    /\ th' = Raised(t, "UpsertError")
    /\ UNCHANGED <<documents, uuids, vector_index, rvars, svars, cvars, bvars>>

\* lines 88-104: the record is stored, the result returned
StoreDocument(t) ==
    /\ th[t].pc = "store"
    /\ documents' = RegistryPut(documents, th[t].document_id,
                                DocumentRecord(th[t].document_id, th[t].filename,
                                               th[t].chunks, MetadataOf(t)))
    /\ th' = [th EXCEPT ![t].pc = "done",
                        ![t].result = <<"success", th[t].document_id, th[t].chunks>>]
    /\ UNCHANGED <<uuids, vector_index, rvars, svars, cvars, bvars>>

\* line 110: get_document_status(document_id) is called; `known` notes whether the
\* id had a record when the call started
LookupCall(t, d) ==
    /\ th[t].pc = "idle"
    /\ th' = [th EXCEPT ![t] = [Idle EXCEPT !.op = "lookup", !.pc = "check",
                                !.document_id = d, !.known = (d \in DOMAIN documents)]]
    /\ UNCHANGED <<documents, uuids, vector_index, rvars, svars, cvars, bvars>>

\* lines 112-113: not found
LookupCheck(t) ==
    /\ th[t].pc = "check"
    /\ IF RegistryMissing(documents, th[t].document_id)
         THEN th' = [th EXCEPT ![t].pc = "done", ![t].result = <<"not found">>]
         ELSE th' = [th EXCEPT ![t].pc = "read"]
    /\ UNCHANGED <<documents, uuids, vector_index, rvars, svars, cvars, bvars>>

\* line 115: the record is returned
LookupRead(t) ==
    /\ th[t].pc = "read"
    /\ th' = [th EXCEPT ![t].pc = "done",
                        ![t].result = <<"record", RegistryGet(documents, th[t].document_id)>>]
    /\ UNCHANGED <<documents, uuids, vector_index, rvars, svars, cvars, bvars>>

\* ------------------------------------------------------ _build_citations
BInit ==
    /\ bpc = "idle"
    /\ context_arg = << >>
    /\ cited = << >>

\* ------------------------------------------------------ DocumentChunker
\* app/pipelines/chunking.py. A string is the sequence of its characters; the
\* alphabet has a letter, the space (whitespace) and the full stop (a sentence
\* terminator of the splitter's [.!?]). Sizes are a few characters, so that texts
\* of MaxTextLen characters fill, overflow and overlap chunks.
Chars == {"a", " ", "."}

Texts == UNION {[1..n -> Chars] : n \in 0..MaxTextLen}

IsSpace(c) == c = " "

IsTerminator(c) == c = "."

Min(S) == CHOOSE x \in S : \A y \in S : x <= y

\* str.strip()
Strip(s) ==
    LET keep == {i \in 1..Len(s) : ~IsSpace(s[i])}
    IN  IF keep = {} THEN << >> ELSE SubSeq(s, Min(keep), Max(keep))

\* `not text or not text.strip()` (line 37)
IsBlank(s) == Len(s) = 0 \/ Len(Strip(s)) = 0

\* " ".join(parts)
RECURSIVE Join(_)
Join(parts) ==
    IF Len(parts) = 0 THEN << >>
    ELSE IF Len(parts) = 1 THEN parts[1]
    ELSE parts[1] \o <<" ">> \o Join(Tail(parts))

\* re.split(r'(?<=[.!?])\s+', text) (line 100): the text is cut at every run of
\* whitespace that follows a terminator; the run itself is dropped.
RECURSIVE ReSplit(_)
ReSplit(s) ==
    LET seps == {i \in 2..Len(s) : IsSpace(s[i]) /\ IsTerminator(s[i - 1])}
    IN  IF seps = {} THEN <<s>>
        ELSE LET i == Min(seps)
                 rest == {j \in (i + 1)..Len(s) : ~IsSpace(s[j])}
                 j == IF rest = {} THEN Len(s) + 1 ELSE Min(rest)
             IN  <<SubSeq(s, 1, i - 1)>> \o ReSplit(SubSeq(s, j, Len(s)))

\* _split_sentences (lines 96-101)
SplitSentences(s) ==
    LET pieces == ReSplit(s)
        stripped == [i \in 1..Len(pieces) |-> Strip(pieces[i])]
    IN  SelectSeq(stripped, LAMBDA p : Len(p) > 0)

\* text[-k:] (line 109); -0 is 0, so text[-0:] is the whole text
LastChars(s, k) == IF k = 0 THEN s ELSE SubSeq(s, Len(s) - k + 1, Len(s))

\* str.find(' ') (line 110): the 0-based index of the first space, -1 if none
FindSpaceNone(s) == -1
FindSpace(s) ==
    LET at == {i \in 1..Len(s) : IsSpace(s[i])}
    IN  IF at = {} THEN -1 ELSE Min(at) - 1

\* _get_overlap_text (lines 103-113); GetOverlapTextWhole would carry the whole text
GetOverlapTextWhole(s, k) == s
GetOverlapText(s, k) ==
    IF Len(s) <= k THEN s
    ELSE LET overlap == LastChars(s, k)
             first_space == FindSpace(overlap)
         IN  IF first_space > 0
               THEN SubSeq(overlap, first_space + 2, Len(overlap))
               ELSE overlap

\* dict.get(key, default)
DictGet(m, key, default) == IF key \in DOMAIN m THEN m[key] ELSE default

\* {**(metadata or {}), "chunk_index": chunk_id} (lines 63-66, 87-90)
ChunkMetadata(m, i) ==
    [k \in DOMAIN m \cup {"chunk_index"} |-> IF k = "chunk_index" THEN i ELSE m[k]]

\* f"{metadata.get('document_id', 'doc')}_{chunk_id}" (lines 59, 83), kept as the
\* pair of its two parts
ChunkIdOfDocument(m, i) == <<DictGet(m, "document_id", "doc"), 0>>
ChunkId(m, i) == <<DictGet(m, "document_id", "doc"), i>>

\* the dictionary appended at lines 58-67 and 82-91
MakeChunk(m, i, body, at) ==
    [chunk_id |-> ChunkId(m, i),
     text |-> body,
     start_index |-> at,
     end_index |-> at + Len(body),
     metadata |-> ChunkMetadata(m, i)]

\* line 76: current_chunk.append(sentence); the sentence goes in whole, whatever
\* its length (AppendSentenceCut would cut it at chunk_size characters)
AppendSentenceCut(buffer, sentence, size) ==
    Append(buffer, SubSeq(sentence, 1, IF Len(sentence) < size THEN Len(sentence) ELSE size))
AppendSentence(buffer, sentence, size) == Append(buffer, sentence)

\* line 74: start += len(chunk_text) - len(overlap_text)
NextStartNoOverlap(at, body, overlap_text) == at + Len(body)
NextStart(at, body, overlap_text) == at + Len(body) - Len(overlap_text)

\* the settings an installation can carry and the arguments a caller can give
\* the constructor (None: argument left out)
SettingsChoices ==
    {[chunk_size |-> 5, chunk_overlap |-> 0], [chunk_size |-> 5, chunk_overlap |-> 2]}

CtorArgs ==
    {[chunk_size |-> a, chunk_overlap |-> b] :
        a \in {None, Some(2)}, b \in {None, Some(0), Some(4)}}

\* the metadata a caller of chunk_text can give: none, the map DocumentService
\* builds (line 55), a map without document_id
Metadatas ==
    {None,
     Some([document_id |-> "d1", filename |-> "notes.txt"]),
     Some([filename |-> "notes.txt"])}

\* DocumentChunker.__init__ (lines 14-20) and a call not yet made
CInit(args, s) ==
    /\ settings = s
    /\ ctor_args = args
    /\ chunk_size = PyOr(args.chunk_size, s.chunk_size)
    /\ chunk_overlap = PyOr(args.chunk_overlap, s.chunk_overlap)
    /\ cpc = "idle"
    /\ text = << >>
    /\ metadata = None
    /\ sentences = << >>
    /\ sidx = 0
    /\ current_chunk = << >>
    /\ current_length = 0
    /\ start = 0
    /\ chunk_id = 0
    /\ chunks = << >>
    /\ overlaps = << >>
    /\ chunk_error = NoError

\* DocumentService.__init__ (line 20): DocumentChunker() with no argument
CInitDefault ==
    CInit([chunk_size |-> None, chunk_overlap |-> None],
          [chunk_size |-> 5, chunk_overlap |-> 2])

\* lines 22-49: the call; blank text returns [] at once
ChunkCall(t, m) ==
    /\ cpc = "idle"
    /\ text' = t
    /\ metadata' = m
    /\ IF IsBlank(t)
         THEN cpc' = "returned" /\ sentences' = sentences /\ sidx' = sidx
         ELSE cpc' = "loop" /\ sentences' = SplitSentences(t) /\ sidx' = 1
    /\ UNCHANGED <<settings, ctor_args, chunk_size, chunk_overlap, current_chunk,
                   current_length, start, chunk_id, chunks, overlaps, chunk_error,
                   rvars, svars, gvars, bvars>>

\* metadata.get on None (lines 59, 83)
ChunkRaise ==
    /\ cpc' = "raised"
    /\ chunk_error' = "AttributeError"
    /\ UNCHANGED <<current_chunk, current_length, start, chunk_id, chunks, overlaps, sidx>>

\* lines 51-77: one iteration of the for loop
LoopBody ==
    /\ cpc = "loop"
    /\ sidx <= Len(sentences)
    /\ LET sentence == sentences[sidx]
           sentence_length == Len(sentence)
           body == Join(current_chunk)
           overlap_text == GetOverlapText(body, chunk_overlap)
       IN  IF current_length + sentence_length > chunk_size /\ current_chunk # << >>
             THEN IF metadata = None
                    THEN ChunkRaise
                    ELSE /\ chunks' = Append(chunks, MakeChunk(metadata[1], chunk_id, body, start))
                         /\ chunk_id' = chunk_id + 1
                         /\ overlaps' = Append(overlaps, overlap_text)
                         /\ current_chunk' =
                                AppendSentence(
                                    IF Len(overlap_text) > 0 THEN <<overlap_text>> ELSE << >>,
                                    sentence, chunk_size)
                         /\ current_length' = Len(overlap_text) + sentence_length + 1
                         /\ start' = NextStart(start, body, overlap_text)
                         /\ sidx' = sidx + 1
                         /\ UNCHANGED <<cpc, chunk_error>>
             ELSE /\ current_chunk' = AppendSentence(current_chunk, sentence, chunk_size)
                  /\ current_length' = current_length + sentence_length + 1
                  /\ sidx' = sidx + 1
                  /\ UNCHANGED <<cpc, chunk_error, start, chunk_id, chunks, overlaps>>
    /\ UNCHANGED <<settings, ctor_args, chunk_size, chunk_overlap, text, metadata, sentences,
                   rvars, svars, gvars, bvars>>

\* lines 79-94: the last chunk and the return
Flush ==
    /\ cpc = "loop"
    /\ sidx > Len(sentences)
    /\ IF current_chunk # << >>
         THEN IF metadata = None
                THEN ChunkRaise
                ELSE /\ chunks' = Append(chunks,
                            MakeChunk(metadata[1], chunk_id, Join(current_chunk), start))
                     /\ cpc' = "returned"
                     /\ UNCHANGED <<current_chunk, current_length, start, chunk_id, overlaps,
                                    sidx, chunk_error>>
         ELSE /\ cpc' = "returned"
              /\ UNCHANGED <<current_chunk, current_length, start, chunk_id, chunks, overlaps,
                             sidx, chunk_error>>
    /\ UNCHANGED <<settings, ctor_args, chunk_size, chunk_overlap, text, metadata, sentences,
                   rvars, svars, gvars, bvars>>

InitChunk ==
    /\ max_retries = MaxRetries
    /\ RInit
    /\ SInit
    /\ GInit
    /\ BInit
    /\ \E args \in CtorArgs, s \in SettingsChoices : CInit(args, s)

NextChunk ==
    \/ cpc = "idle" /\ \E t \in Texts, m \in Metadatas : ChunkCall(t, m)
    \/ LoopBody
    \/ Flush

SpecChunk == InitChunk /\ [][NextChunk]_vars

\* the context chunks _build_citations can be given: texts around the limit
TextLens == {0, 1, CitationLimit - 1, CitationLimit, CitationLimit + 1, 2 * CitationLimit}

ContextChunkChoices ==
    {[text |-> TextOfLen(1, n), chunk_id |-> 1, score |-> sc] : n \in TextLens, sc \in {2, 9}}

ContextLists == UNION {[1..n -> ContextChunkChoices] : n \in 0..MaxHits}

\* lines 133-144: one call of _build_citations
BuildCitationsCall(cs) ==
    /\ bpc = "idle"
    /\ context_arg' = cs
    /\ cited' = BuildCitations(cs)
    /\ bpc' = "returned"
    /\ UNCHANGED <<rvars, svars, gvars, cvars>>

InitCitations ==
    /\ max_retries = MaxRetries
    /\ RInit
    /\ SInit
    /\ GInit
    /\ BInit
    /\ CInitDefault

NextCitations == bpc = "idle" /\ \E cs \in ContextLists : BuildCitationsCall(cs)

SpecCitations == InitCitations /\ [][NextCitations]_vars

Next ==
    \/ \E k \in TopKArgs, t \in ThresholdArgs, inc \in BOOLEAN : Call(k, t, inc)
    \/ EmbedOk
    \/ EmbedFail
    \/ QueryFail
    \/ QueryEmpty
    \/ \E hits \in QueryVectors(top_k) : QueryHits(hits)
    \/ \E ans \in Answers : GenerateOk(ans)
    \/ GenerateFail
    \/ Sleep

Init ==
    /\ max_retries \in 0..MaxRetries
    /\ RInit
    /\ SInit
    /\ GInit
    /\ BInit
    /\ CInitDefault

Spec == Init /\ [][Next]_vars

NextServe ==
    \/ \E r \in Requests, kind \in Kinds : Receive(r, kind)
    \/ \E r \in Requests : StartHandler(r)
    \/ \E r \in Requests : QueryNoAttempt(r)
    \/ \E r \in Requests : QueryAttemptOk(r)
    \/ \E r \in Requests : QueryAttemptFail(r)
    \/ \E r \in Requests : QuerySleepDone(r)
    \/ \E r \in Requests, code \in {200, 404} : StatusLookup(r, code)
    \/ \E r \in Requests : IngestAwaitRead(r)
    \/ \E r \in Requests : IngestResume(r)
    \/ \E r \in Requests, code \in {200, 400, 500} : IngestFinish(r, code)

SpecServe == Init /\ [][NextServe]_vars

InitRegistry ==
    /\ max_retries = MaxRetries
    /\ RInit
    /\ SInit
    /\ GInit
    /\ BInit
    /\ CInitDefault

NextRegistry ==
    \/ \E t \in Threads, fn \in Filenames : IngestFile(t, fn)
    \/ \E t \in Threads, fn \in Filenames : IngestFileFail(t, fn)
    \/ \E t \in Threads, n \in ChunkCounts : ChunkText(t, n)
    \/ \E t \in Threads : EmbedChunksOk(t)
    \/ \E t \in Threads : EmbedChunksFail(t)
    \/ \E t \in Threads : UpsertOk(t)
    \/ \E t \in Threads : UpsertFail(t)
    \/ \E t \in Threads : StoreDocument(t)
    \/ \E t \in Threads, d \in DocIds : LookupCall(t, d)
    \/ \E t \in Threads : LookupCheck(t)
    \/ \E t \in Threads : LookupRead(t)

SpecRegistry == InitRegistry /\ [][NextRegistry]_vars

\* ------------------------------------------------------------------ claims
StageErrors == {"EmbeddingError", "VectorQueryError", "GenerationError"}

Returned == pc = "returned"
Meta == outcome[1].retrieval_metadata

\* C1: with max_retries >= 1, a failed attempt i < max_retries-1 is followed by exactly
\* one delay of 2^i and attempt i+1, which starts from embedding; the failure of
\* attempt max_retries-1 is raised to the caller with no delay after it. So the k-th
\* delay is 2^(k-1), a raised call has made exactly max_retries attempts and
\* max_retries-1 delays, and the error raised is the last attempt's exception.
C1_RetryBackoff ==
    max_retries >= 1 =>
        /\ \A k \in 1..Len(delays) : delays[k] = 2 ^ (k - 1)
        /\ pc \in {"embed", "query", "generate"} =>
              /\ attempt < max_retries
              /\ failed = attempt
              /\ Len(delays) = attempt
              /\ calls.embed = attempt + (IF pc = "embed" THEN 0 ELSE 1)
              /\ pc = "embed" => called = << >>
        /\ pc = "backoff" =>
              /\ attempt < max_retries - 1
              /\ failed = attempt + 1
              /\ Len(delays) = attempt
              /\ calls.embed = attempt + 1
        /\ pc = "raised" =>
              /\ attempt = max_retries - 1
              /\ failed = max_retries
              /\ calls.embed = max_retries
              /\ Len(delays) = max_retries - 1
              /\ error \in StageErrors
              /\ error = lastExc

C1_Witness ==
    /\ pc = "raised"
    /\ max_retries = 3
    /\ failed = 3
    /\ delays = <<1, 2>>
    /\ error = "EmbeddingError"

\* C2: a call that has returned does nothing more (no provider call, no delay), the
\* delays it made are those of its failed attempts, and retrieval_metadata.attempt
\* is 1 plus the number of attempts that failed before the succeeding one.
C2_SuccessShortCircuits ==
    Returned =>
        /\ outcome # None
        /\ Meta.attempt = failed + 1
        /\ Len(delays) = failed
        /\ calls.embed = failed + 1
        /\ called = answered
        /\ ~ ENABLED Next

C2_Witness ==
    /\ Returned
    /\ failed = 2
    /\ Meta.attempt = 3
    /\ Len(results) > 0

\* C3: once the store has returned zero hits in an attempt, the call has returned, in
\* that attempt, the canned outcome (citations empty, confidence 0, retrieval_count
\* 0), with no delay for this attempt and no call of the answer generator in it.
C3_ZeroHits ==
    (answered = <<"embed", "query">> /\ Len(results) = 0) =>
        /\ Returned
        /\ attempt = failed
        /\ Len(delays) = failed
        /\ called = <<"embed", "query">>
        /\ outcome # None
        /\ outcome[1].answer = NoInfoAnswer
        /\ outcome[1].citations = << >>
        /\ outcome[1].confidence_score = 0
        /\ Meta.retrieval_count = 0
        /\ error = NoError

C3_Witness ==
    /\ Returned
    /\ answered = <<"embed", "query">>
    /\ Len(results) = 0
    /\ failed = 1
    /\ calls.generate = 1

\* C4: when the store returned hits and none reaches the threshold, the hits used as
\* context are exactly one hit of the returned list, its score is the highest of all
\* returned hits, and retrieval_count is 1.
NoneReaches == Len(results) > 0 /\ \A i \in 1..Len(results) : results[i].score < threshold

C4_ThresholdFallback ==
    NoneReaches =>
        /\ Len(filtered_results) = 1
        /\ \E i \in 1..Len(results) : results[i] = filtered_results[1]
        /\ \A i \in 1..Len(results) : results[i].score <= filtered_results[1].score
        /\ Returned => Meta.retrieval_count = 1

C4_Witness ==
    /\ Returned
    /\ NoneReaches
    /\ Len(results) = 3
    /\ results[1].score > results[3].score
    /\ Meta.retrieval_count = 1

\* C5: an outcome built from a non-empty hit list reports, as max_confidence and as
\* confidence_score, the maximum score over all hits the store returned, on the
\* threshold path and on the fallback path.
IsTrueMax(m) ==
    /\ \E i \in 1..Len(results) : results[i].score = m
    /\ \A i \in 1..Len(results) : results[i].score <= m

C5_MaxConfidence ==
    (Returned /\ Len(results) > 0) =>
        /\ IsTrueMax(Meta.max_confidence)
        /\ IsTrueMax(outcome[1].confidence_score)

C5_Witness ==
    /\ Returned
    /\ NoneReaches
    /\ Len(results) >= 2
    /\ results[1].score > results[Len(results)].score
    /\ Meta.max_confidence = results[1].score

\* C6: when some returned hit reaches the threshold, the hits given to the answer
\* generator are exactly the returned hits with score >= threshold, in the store's
\* order, and 1 <= retrieval_count <= total_retrieved.
Reaching == {i \in 1..Len(results) : results[i].score >= threshold}
NthReaching(j) == CHOOSE i \in Reaching : Cardinality({k \in Reaching : k <= i}) = j

C6_ConfidenceFilter ==
    (Len(results) > 0 /\ Reaching # {}) =>
        /\ Len(filtered_results) = Cardinality(Reaching)
        /\ \A j \in 1..Len(filtered_results) : filtered_results[j] = results[NthReaching(j)]
        /\ Returned =>
              /\ Meta.retrieval_count = Cardinality(Reaching)
              /\ Meta.total_retrieved = Len(results)
              /\ 1 <= Meta.retrieval_count
              /\ Meta.retrieval_count <= Meta.total_retrieved

C6_Witness ==
    /\ Returned
    /\ Len(results) = 3
    /\ results[2].score = threshold
    /\ results[3].score < threshold
    /\ Len(filtered_results) = 2

\* C7: a supplied confidence_threshold (0.0 included) is the threshold the filter
\* uses and the threshold_used reported, and a supplied top_k is the top_k the store
\* is queried with.
C7_OverrideResolution ==
    (Returned /\ Len(results) > 0) =>
        /\ q_threshold # None => (threshold = q_threshold[1] /\ Meta.threshold_used = q_threshold[1])
        /\ q_top_k # None => queried_top_k = q_top_k

\* C8: while a query request is in its backoff delay, another request that waits for
\* the loop thread (its handler not yet started, or suspended at its await) can take
\* its next step.
NeedsLoop(o) == req[o].pc \in {"pending", "reading"}

C8_BackoffBlocksOnlyCaller ==
    \A r \in Requests, o \in Requests :
        (r # o /\ req[r].pc = "backoff" /\ NeedsLoop(o)) =>
            ENABLED (StartHandler(o) \/ IngestResume(o))

\* C9: under every interleaving of ingestions and lookups, each ingestion that has
\* stored its record finds it in the registry with its own values whatever the other
\* callers stored, and a finished lookup has observed either not-found or the
\* complete record of the ingestion that owns the identifier.
Stored(t) == th[t].op = "ingest" /\ th[t].pc = "done" /\ th[t].result[1] = "success"

OwnRecord(t) ==
    [document_id |-> th[t].document_id, filename |-> th[t].filename,
     chunks_count |-> th[t].chunks, status |-> "processed",
     metadata |-> [uploaded_by |-> t]]

LookedUp(t) == th[t].op = "lookup" /\ th[t].pc = "done"

C9_RegistryConsistency ==
    /\ \A t \in Threads :
          Stored(t) =>
              /\ th[t].document_id \in DOMAIN documents
              /\ documents[th[t].document_id] = OwnRecord(t)
    /\ \A t \in Threads :
          LookedUp(t) =>
              \/ th[t].result = <<"not found">>
              \/ /\ th[t].result[1] = "record"
                 /\ \E u \in Threads :
                       /\ Stored(u)
                       /\ th[u].document_id = th[t].document_id
                       /\ th[t].result[2] = OwnRecord(u)

C9_Witness ==
    \E t \in Threads, u \in Threads, l \in Threads :
        /\ Stored(t) /\ Stored(u)
        /\ th[t].document_id # th[u].document_id
        /\ th[t].chunks # th[u].chunks
        /\ LookedUp(l)
        /\ ~ th[l].known
        /\ th[l].result = <<"record", OwnRecord(u)>>

\* C10: a lookup of an identifier that has no record ends in not-found, a lookup of
\* an identifier that had a record when it was called returns that record, a lookup
\* leaves the registry as it is, and no step removes or replaces a stored record.
C10_Lookups ==
    \A t \in Threads :
        LookedUp(t) =>
            /\ th[t].document_id \notin DOMAIN documents => th[t].result = <<"not found">>
            /\ th[t].result # <<"not found">> =>
                  /\ th[t].document_id \in DOMAIN documents
                  /\ th[t].result = <<"record", documents[th[t].document_id]>>
            /\ th[t].known => th[t].result # <<"not found">>

C10_Step ==
    /\ \A d \in DOMAIN documents : d \in DOMAIN documents' /\ documents'[d] = documents[d]
    /\ (\E t \in Threads : th'[t].op = "lookup" /\ th'[t] # th[t]) => documents' = documents

C10_RegistryLookup == [] C10_Lookups /\ [][C10_Step]_vars

C10_Witness ==
    \E t \in Threads, l \in Threads :
        /\ LookedUp(t) /\ th[t].known /\ th[t].result[1] = "record"
        /\ LookedUp(l) /\ th[l].result = <<"not found">>
        /\ th[l].document_id \notin DOMAIN documents

\* ------------------------------------------------------ chunker claims
ChunkReturned == cpc = "returned"

\* a text with no character other than whitespace (the empty text included)
OnlyWhitespace(s) == \A i \in 1..Len(s) : s[i] = " "

\* C11: chunk_text never fails; it returns the empty sequence exactly when the text
\* is empty or whitespace-only, and for a text with a non-whitespace character,
\* with or without a metadata map, it returns at least one chunk and no chunk has
\* empty text.
C11_ChunkTextTotal ==
    /\ cpc # "raised"
    /\ ChunkReturned =>
          /\ chunks = << >> <=> OnlyWhitespace(text)
          /\ \A i \in 1..Len(chunks) : Len(chunks[i].text) > 0

\* p occupies a whole stretch of s: a contiguous copy of p that begins at the start
\* of s or after a space and ends at the end of s or before a space
AppearsWhole(p, s) ==
    \E k \in 0..(Len(s) - Len(p)) :
        /\ SubSeq(s, k + 1, k + Len(p)) = p
        /\ k = 0 \/ s[k] = " "
        /\ k + Len(p) = Len(s) \/ s[k + Len(p) + 1] = " "

\* C12: every sentence the splitter produced appears whole, as a contiguous part,
\* in at least one returned chunk, the sentences in their original order along the
\* chunk sequence; no sentence is cut, not even one longer than chunk_size.
C12_SentencesWhole ==
    (ChunkReturned /\ Len(sentences) > 0) =>
        \E f \in [1..Len(sentences) -> 1..Len(chunks)] :
            /\ \A i \in 1..Len(sentences) : AppearsWhole(sentences[i], chunks[f[i]].text)
            /\ \A i \in 1..(Len(sentences) - 1) : f[i] <= f[i + 1]

C12_Witness ==
    /\ ChunkReturned
    /\ Len(chunks) >= 2
    /\ Len(sentences) >= 3
    /\ \E i \in 1..Len(sentences) : Len(sentences[i]) > chunk_size

IsPrefix(p, s) == Len(p) <= Len(s) /\ SubSeq(s, 1, Len(p)) = p

\* the overlap tail carried from returned chunk i into chunk i + 1: the text the
\* next chunk begins with, as computed when chunk i closed
CarriedInto(i) == overlaps[i]

\* C13: in a returned chunk sequence every chunk has start_index <= end_index,
\* start_index never decreases from a chunk to the next, and each next start_index
\* is the previous one plus the length of the previous text minus the length of the
\* overlap tail carried into the next chunk.
C13_Offsets ==
    ChunkReturned =>
        /\ \A i \in 1..Len(chunks) : chunks[i].start_index <= chunks[i].end_index
        /\ Len(chunks) > 0 => Len(overlaps) = Len(chunks) - 1
        /\ \A i \in 1..(Len(chunks) - 1) :
              /\ IsPrefix(CarriedInto(i), chunks[i + 1].text)
              /\ chunks[i].start_index <= chunks[i + 1].start_index
              /\ chunks[i + 1].start_index =
                    chunks[i].start_index + Len(chunks[i].text) - Len(CarriedInto(i))

C13_Witness ==
    /\ ChunkReturned
    /\ Len(chunks) >= 3
    /\ \E i \in 1..(Len(chunks) - 1) :
          /\ Len(CarriedInto(i)) > 0
          /\ Len(CarriedInto(i)) < Len(chunks[i].text)

\* C14 as stated: for positive chunk_size and chunk_overlap, each later chunk of a
\* returned sequence has a start_index strictly greater than the chunk before it.
C14_StrictlyIncreasing ==
    (ChunkReturned /\ chunk_size > 0 /\ chunk_overlap > 0) =>
        \A i \in 1..(Len(chunks) - 1) : chunks[i].start_index < chunks[i + 1].start_index

\* C14 amended: for positive chunk_size and chunk_overlap, a later chunk's
\* start_index is strictly greater than the earlier chunk's when the earlier chunk's
\* text is longer than chunk_overlap, and equal to it when the earlier text is no
\* longer than chunk_overlap (the whole text is then carried as the overlap).
C14_StrictUnlessCarriedWhole ==
    (ChunkReturned /\ chunk_size > 0 /\ chunk_overlap > 0) =>
        \A i \in 1..(Len(chunks) - 1) :
            IF Len(chunks[i].text) > chunk_overlap
              THEN chunks[i].start_index < chunks[i + 1].start_index
              ELSE chunks[i].start_index = chunks[i + 1].start_index

C14_Witness ==
    /\ ChunkReturned /\ chunk_size > 0 /\ chunk_overlap > 0
    /\ \E i, j \in 1..(Len(chunks) - 1) :
          /\ Len(chunks[i].text) <= chunk_overlap
          /\ chunks[i].start_index = chunks[i + 1].start_index
          /\ Len(chunks[j].text) > chunk_overlap
          /\ chunks[j].start_index < chunks[j + 1].start_index

\* C15: for any two consecutive chunks of a returned sequence, the overlap text
\* carried from the first into the second is at most chunk_overlap characters long.
C15_OverlapBound ==
    ChunkReturned =>
        \A i \in 1..(Len(chunks) - 1) :
            /\ IsPrefix(CarriedInto(i), chunks[i + 1].text)
            /\ Len(CarriedInto(i)) <= chunk_overlap

IsSuffix(p, s) == Len(p) <= Len(s) /\ SubSeq(s, Len(s) - Len(p) + 1, Len(s)) = p

\* the suffix p of s begins immediately after a space of s
BeginsAfterSpace(p, s) == Len(p) < Len(s) /\ s[Len(s) - Len(p)] = " "

\* the suffix p of s begins at the beginning of a word of s: on a character that is
\* not a space, at the start of s or immediately after a space
BeginsWord(p, s) ==
    /\ Len(p) > 0
    /\ p[1] # " "
    /\ Len(p) = Len(s) \/ BeginsAfterSpace(p, s)

\* C16 as stated: the carried overlap starts at the beginning of a word of the
\* closed chunk, never in the middle of a word.
C16_OverlapAtWordStart ==
    ChunkReturned =>
        \A i \in 1..(Len(chunks) - 1) :
            /\ IsSuffix(CarriedInto(i), chunks[i].text)
            /\ BeginsWord(CarriedInto(i), chunks[i].text)

\* C16 amended: the carried overlap is a suffix of the closed chunk that is the
\* whole chunk, or begins immediately after a space of the chunk (the partial
\* leading word discarded), or is a tail carried untrimmed because it holds no
\* space or begins with one (such a tail may begin inside a word).
C16_OverlapTrimmedWhenPossible ==
    ChunkReturned =>
        \A i \in 1..(Len(chunks) - 1) :
            LET ov == CarriedInto(i)
                body == chunks[i].text
            IN  /\ IsSuffix(ov, body)
                /\ \/ ov = body
                   \/ BeginsAfterSpace(ov, body)
                   \/ \A k \in 1..Len(ov) : ov[k] # " "
                   \/ Len(ov) > 0 /\ ov[1] = " "

C16_Witness ==
    /\ ChunkReturned
    /\ chunk_overlap > 0
    /\ \E i \in 1..(Len(chunks) - 1) :
          /\ Len(chunks[i].text) > chunk_overlap
          /\ Len(CarriedInto(i)) < chunk_overlap
          /\ BeginsWord(CarriedInto(i), chunks[i].text)
          /\ ~ BeginsWord(LastChars(chunks[i].text, chunk_overlap), chunks[i].text)

Generated == Returned /\ Len(results) > 0

\* C18: when an answer is generated, the generator is given one context chunk per
\* surviving hit, in order; with include_citations the citations are one-to-one and
\* in order with the surviving hits (as many as retrieval_count, each with its hit's
\* id and score), whatever the answer text; without it the citations are empty and
\* the answer is still generated from the same surviving hits.
C18_CitationsFollowHits ==
    Generated =>
        LET o == outcome[1]
            cites == o.citations
        IN  /\ generated_from # None
            /\ Len(generated_from[1]) = Len(filtered_results)
            /\ \A i \in 1..Len(filtered_results) :
                  /\ generated_from[1][i].chunk_id = filtered_results[i].id
                  /\ generated_from[1][i].score = filtered_results[i].score
                  /\ generated_from[1][i].text = filtered_results[i].text
            /\ o.answer \in Answers
            /\ o.retrieval_metadata.retrieval_count = Len(filtered_results)
            /\ IF include_citations
                 THEN /\ Len(cites) = o.retrieval_metadata.retrieval_count
                      /\ \A i \in 1..Len(cites) :
                            /\ cites[i].chunk_id = filtered_results[i].id
                            /\ cites[i].confidence_score = filtered_results[i].score
                 ELSE cites = << >>

C18_Witness ==
    /\ Generated
    /\ include_citations
    /\ Len(outcome[1].citations) >= 2
    /\ Len(results) > Len(filtered_results)
    /\ filtered_results[1].score # filtered_results[2].score

\* C19: a citation's text is the hit text unchanged when that text has at most 200
\* characters, and its first 200 characters followed by an ellipsis when it has more.
C19_CitationText ==
    bpc = "returned" =>
        /\ Len(cited) = Len(context_arg)
        /\ \A i \in 1..Len(cited) :
              LET t == context_arg[i].text
                  c == cited[i].text
              IN  IF t.len <= CitationLimit
                    THEN c.body = t /\ ~ c.ellipsis
                    ELSE /\ c.ellipsis
                         /\ c.body.doc = t.doc
                         /\ c.body.len = CitationLimit

C19_Witness ==
    /\ bpc = "returned"
    /\ \E i, j, k \in 1..Len(cited) :
          /\ context_arg[i].text.len = CitationLimit /\ ~ cited[i].text.ellipsis
          /\ context_arg[j].text.len = CitationLimit + 1 /\ cited[j].text.ellipsis
          /\ context_arg[k].text.len < CitationLimit /\ cited[k].text.body = context_arg[k].text

\* ------------------------------------------------------ ingestion claim
IngestionCalls == <<"ingest_file", "chunk_text", "generate_embeddings", "upsert_vectors">>

IsRaised(r) == Len(r) = 2 /\ r[1] = "raised"

IsSuccess(r) == Len(r) = 3 /\ r[1] = "success"

Upserted(d) == {v \in vector_index : v[1] = d}

\* every record is the record of an ingestion that made its four calls once each and
\* returned; it says processed and counts the chunks upserted, at least one. An
\* ingestion that found no chunk made no embedding or upsert call and no second try.
C20_Records ==
    /\ \A d \in DOMAIN documents :
          /\ documents[d].status = "processed"
          /\ documents[d].chunks_count > 0
          /\ documents[d].chunks_count = Cardinality(Upserted(d))
          /\ \E t \in Threads :
                /\ th[t].pc = "done"
                /\ IsSuccess(th[t].result)
                /\ th[t].result[2] = d
                /\ th[t].result[3] = documents[d].chunks_count
                /\ th[t].steps = IngestionCalls
    /\ \A t \in Threads :
          (th[t].pc = "done" /\ IsRaised(th[t].result)) =>
              /\ th[t].steps \in {SubSeq(IngestionCalls, 1, k) : k \in 1..4}
              /\ th[t].result[2] = "No chunks created from document" =>
                    th[t].steps = <<"ingest_file", "chunk_text">>

\* the registry changes only in the step that ends a fully successful ingestion;
\* a step in which an ingestion fails leaves the registry as it is
C20_Step ==
    /\ documents' # documents =>
          \E t \in Threads :
              /\ th[t].pc = "store"
              /\ th[t].steps = IngestionCalls
              /\ th'[t].pc = "done"
              /\ IsSuccess(th'[t].result)
              /\ DOMAIN documents' = DOMAIN documents \cup {th[t].document_id}
              /\ th[t].document_id \notin DOMAIN documents
    /\ (\E t \in Threads : th[t].pc # "done" /\ th'[t].pc = "done" /\ IsRaised(th'[t].result))
          => documents' = documents

\* C20: a registry record is written only as the last step of an ingestion whose
\* extraction, chunking (with at least one chunk), embedding and upsert all
\* succeeded, with status processed and chunks_count the number of chunks upserted;
\* a failing step leaves the registry unchanged; an empty chunk set is reported at
\* once, with no embedding or upsert call and no retry.
C20_RecordOnlyOnSuccess == [] C20_Records /\ [][C20_Step]_vars

C20_Witness ==
    \E t, u, v \in Threads :
        /\ IsSuccess(th[t].result) /\ th[t].result[2] \in DOMAIN documents
        /\ th[u].result = <<"raised", "No chunks created from document">>
        /\ th[v].result = <<"raised", "UpsertError">>
        /\ Cardinality(DOMAIN documents) = 1

\* ------------------------------------------------------ size and constructor claims
\* the chunk text is one sentence of the splitter and nothing else
IsSingleSentence(body) == \E j \in 1..Len(sentences) : sentences[j] = body

\* C21: every returned chunk has a text of at most chunk_size characters, except a
\* chunk that is one single sentence longer than chunk_size; a chunk made of an
\* overlap tail followed by sentences never exceeds chunk_size.
C21_ChunkSizeBound ==
    ChunkReturned =>
        \A i \in 1..Len(chunks) :
            \/ Len(chunks[i].text) <= chunk_size
            \/ IsSingleSentence(chunks[i].text)

\* C22: a chunker constructed with an explicit chunk_size or chunk_overlap uses that
\* value in chunk_text, and the configured default only when the argument is left
\* out; constructed with chunk_overlap = 0 it carries no overlap text into a next chunk.
C22_ExplicitArguments ==
    cpc # "idle" =>
        /\ chunk_size = IF ctor_args.chunk_size = None THEN settings.chunk_size
                        ELSE ctor_args.chunk_size[1]
        /\ chunk_overlap = IF ctor_args.chunk_overlap = None THEN settings.chunk_overlap
                           ELSE ctor_args.chunk_overlap[1]
        /\ ctor_args.chunk_overlap = Some(0) =>
              \A i \in 1..Len(overlaps) : overlaps[i] = << >>

====
